---------------------------- MODULE Spec2Model ----------------------------
(***************************************************************************)
(* A model of claude-lsp (src/src/daemon.ts, src/src/index.ts): the        *)
(* per-project rust-analyzer daemon with its state file, port allocation   *)
(* and TCP proxy, the Content-Length message framer, and the LSP client.   *)
(*                                                                         *)
(* Five specifications share the module:                                   *)
(*   Spec        hook invocations (separate OS processes) running          *)
(*               ensureDaemon / spawnDaemon and connecting to the proxy;   *)
(*   FairSpec    Spec with the event loop's guarantee that a registered    *)
(*               exit callback runs while its process is alive;            *)
(*   FramerSpec  a byte stream fed in arbitrary chunks through the         *)
(*               client's data handler.                                    *)
(*   ClientSpec  one SimpleLspClient issuing requests, the server          *)
(*               answering in any order, request timers firing.            *)
(*   QuerySpec   one invocation's sequential queryDiagnostics calls: the   *)
(*               client cache, the handshake and waitForDiagnostics.       *)
(***************************************************************************)
EXTENDS Integers, Sequences, FiniteSets, TLC

(***************************************************************************)
(* Bounds of the model.                                                    *)
(***************************************************************************)
NumInv == 2          \* hook invocations (independent processes)
MaxRequests == 2     \* requests one client issues
MaxServerMsgs == 2   \* messages the server writes to one client
MaxCalls == 2        \* queryDiagnostics calls one invocation makes

(***************************************************************************)
(* Program constants.                                                      *)
(***************************************************************************)
BASE_PORT   == 19200     \* daemon.ts:8
PollInterval == 100      \* daemon.ts:308  (Bun.sleep(100))
QueryWaitMs  == 3000     \* daemon.ts:354  (waitForDiagnostics(fileUri, 3000))
HashRange   == 100       \* daemon.ts:154  (hash % 100)
ProbeBudget == 100       \* daemon.ts:83   (port < start + 100)

Invocations == 1..NumInv

\* Two concrete project roots.  Their sha256 prefixes give adjacent start
\* ports, so that probing past a taken port reaches the other project.
Projects == {"/w/a", "/proj/p22"}

\* parseInt(hashPath(p), 16): the first 8 hex digits of sha256(p).
\*   sha256("/w/a")      = 2d00e6ed...   sha256("/proj/p22") = 1b0b659a...
hashPath(p) ==
    CASE p = "/w/a"      -> 755033837
      [] p = "/proj/p22" -> 453731738

\* Every port findFreePort can be asked about.
Ports == BASE_PORT .. (BASE_PORT + (HashRange - 1) + (ProbeBudget - 1))

(***************************************************************************)
(* Text.  A JavaScript string is a sequence of UTF-16 code units and a     *)
(* socket chunk is a sequence of bytes.  An ASCII character and its byte   *)
(* are written as the same one-character string; the one non-ASCII         *)
(* character of the model is "U+00E9" (e-acute, bytes 0xC3 0xA9), and      *)
(* "U+FFFD" is the replacement character a decoder emits.                  *)
(***************************************************************************)
Digit == <<"0", "1", "2", "3", "4", "5", "6", "7", "8", "9">>

IsDigit(c) == \E d \in 1..10 : Digit[d] = c

DigitValue(c) == (CHOOSE d \in 1..10 : Digit[d] = c) - 1

UpperCase == <<"A", "B", "C", "D", "E", "F", "G", "H", "I", "J", "K", "L", "M",
               "N", "O", "P", "Q", "R", "S", "T", "U", "V", "W", "X", "Y", "Z">>

LowerCase == <<"a", "b", "c", "d", "e", "f", "g", "h", "i", "j", "k", "l", "m",
               "n", "o", "p", "q", "r", "s", "t", "u", "v", "w", "x", "y", "z">>

\* Case folding of the regular expression's /i flag.
ToLower(c) ==
    IF \E k \in 1..26 : UpperCase[k] = c
    THEN LowerCase[CHOOSE k \in 1..26 : UpperCase[k] = c]
    ELSE c

\* The UTF-8 bytes of one code unit.
Utf8Bytes(c) == IF c = "U+00E9" THEN <<"0xC3", "0xA9">> ELSE <<c>>

\* What socket.write(string) puts on the wire.
RECURSIVE Utf8Encode(_)
Utf8Encode(str) ==
    IF str = <<>> THEN <<>>
    ELSE IF Len(str) = 1 THEN Utf8Bytes(str[1])
    ELSE Utf8Encode(SubSeq(str, 1, Len(str) \div 2))
         \o Utf8Encode(SubSeq(str, (Len(str) \div 2) + 1, Len(str)))

\* Buffer.byteLength(string): the length of its UTF-8 encoding.
byteLength(str) == Len(Utf8Encode(str))

\* new TextDecoder().decode(chunk): a fresh, non-streaming UTF-8 decoder
\* for every chunk.  A lead byte without its continuation byte (cut off by
\* the end of the chunk, or followed by something else) and a continuation
\* byte without a lead byte each decode to U+FFFD.
TextDecode(bytes) ==
    LET decoded ==
          [k \in 1..Len(bytes) |->
             IF bytes[k] = "0xC3"
             THEN IF k < Len(bytes) /\ bytes[k + 1] = "0xA9"
                  THEN "U+00E9" ELSE "U+FFFD"
             ELSE IF bytes[k] = "0xA9"
             THEN IF k > 1 /\ bytes[k - 1] = "0xC3"
                  THEN "consumed" ELSE "U+FFFD"
             ELSE bytes[k]]
    IN SelectSeq(decoded, LAMBDA c : c # "consumed")

\* String(n) for an integer n >= 0.
RECURSIVE NumberToString(_)
NumberToString(n) ==
    IF n < 10 THEN <<Digit[n + 1]>>
    ELSE NumberToString(n \div 10) \o <<Digit[(n % 10) + 1]>>

\* parseInt(digits, 10) for a non-empty run of decimal digits.
RECURSIVE parseInt(_)
parseInt(digits) ==
    IF Len(digits) = 1 THEN DigitValue(digits[1])
    ELSE parseInt(SubSeq(digits, 1, Len(digits) - 1)) * 10
         + DigitValue(digits[Len(digits)])

\* String.prototype.indexOf, 0-based, -1 when there is no occurrence.
indexOf(str, sub) ==
    LET hits == {k \in 0..(Len(str) - Len(sub)) :
                    \A x \in 1..Len(sub) : str[k + x] = sub[x]}
    IN IF hits = {} THEN -1 ELSE CHOOSE k \in hits : \A h \in hits : k <= h

\* String.prototype.slice(from, to) with 0 <= from, 0-based, to exclusive.
slice(str, from, to) ==
    IF from >= Len(str) \/ to <= from THEN <<>>
    ELSE SubSeq(str, from + 1, IF to > Len(str) THEN Len(str) ELSE to)

(***************************************************************************)
(* JSON.  Values are numbers (integers), strings, literals, arrays and     *)
(* objects; an object is the sequence of its members in insertion order.   *)
(* The strings of the model hold no quote, backslash or control character, *)
(* so JSON.stringify escapes nothing, and the texts hold no fraction or    *)
(* exponent.                                                               *)
(***************************************************************************)
JNum(n)  == [t |-> "num", n |-> n]
JStr(s)  == [t |-> "str", s |-> s]
JLit(l)  == [t |-> "lit", l |-> l]
JArr(a)  == [t |-> "arr", a |-> a]
JObj(m)  == [t |-> "obj", m |-> m]
Member(k, v) == [k |-> k, v |-> v]

JUndefined == [t |-> "undefined"]

\* obj[key] = value on an object's member list: a new key is appended, an
\* existing key keeps its place.
RECURSIVE SetMember(_, _, _)
SetMember(m, k, v) ==
    IF m = <<>> THEN <<Member(k, v)>>
    ELSE IF Head(m).k = k THEN <<Member(k, v)>> \o Tail(m)
    ELSE <<Head(m)>> \o SetMember(Tail(m), k, v)

\* "key" in obj
HasKey(obj, k) == \E x \in 1..Len(obj.m) : obj.m[x].k = k

\* obj.key (undefined when missing)
Get(obj, k) ==
    IF HasKey(obj, k)
    THEN obj.m[CHOOSE x \in 1..Len(obj.m) : obj.m[x].k = k].v
    ELSE JUndefined

LitText(l) ==
    CASE l = "null"  -> <<"n", "u", "l", "l">>
      [] l = "true"  -> <<"t", "r", "u", "e">>
      [] l = "false" -> <<"f", "a", "l", "s", "e">>

RECURSIVE stringify(_), StringifyMembers(_), StringifyElements(_)
\* JSON.stringify(value)
stringify(v) ==
    CASE v.t = "num" -> IF v.n < 0 THEN <<"-">> \o NumberToString(0 - v.n)
                        ELSE NumberToString(v.n)
      [] v.t = "str" -> <<"\"">> \o v.s \o <<"\"">>
      [] v.t = "lit" -> LitText(v.l)
      [] v.t = "arr" -> <<"[">> \o StringifyElements(v.a) \o <<"]">>
      [] v.t = "obj" -> <<"{">> \o StringifyMembers(v.m) \o <<"}">>

StringifyMembers(m) ==
    IF m = <<>> THEN <<>>
    ELSE <<"\"">> \o Head(m).k \o <<"\"", ":">> \o stringify(Head(m).v)
         \o (IF Len(m) = 1 THEN <<>> ELSE <<",">> \o StringifyMembers(Tail(m)))

StringifyElements(a) ==
    IF a = <<>> THEN <<>>
    ELSE stringify(Head(a))
         \o (IF Len(a) = 1 THEN <<>> ELSE <<",">> \o StringifyElements(Tail(a)))

ParseFail == [ok |-> FALSE, v |-> JUndefined, next |-> 0]
ParseOk(v, next) == [ok |-> TRUE, v |-> v, next |-> next]

IsWhitespace(c) == c \in {" ", "\t", "\n", "\r"}

\* The first index at or after i that holds no JSON whitespace.
SkipWs(s, i) ==
    LET stops == {x \in i..Len(s) : ~IsWhitespace(s[x])}
    IN IF stops = {} THEN (IF i > Len(s) THEN i ELSE Len(s) + 1)
       ELSE CHOOSE x \in stops : \A y \in stops : x <= y

\* The index of the quote that closes a string whose content starts at j,
\* or 0 when the string is not closed or holds a character JSON forbids.
ClosingQuote(s, j) ==
    LET stops == {x \in j..Len(s) : s[x] \in {"\"", "\t", "\n", "\r", "\\"}}
    IN IF stops = {} THEN 0
       ELSE LET q == CHOOSE x \in stops : \A y \in stops : x <= y
            IN IF s[q] = "\"" THEN q ELSE 0

\* s[i] is a quote.
ParseString(s, i) ==
    LET q == ClosingQuote(s, i + 1)
    IN IF q = 0 THEN ParseFail
       ELSE ParseOk(JStr(SubSeq(s, i + 1, q - 1)), q + 1)

\* The index after the run of digits that starts at i.
DigitsEnd(s, i) ==
    LET stops == {x \in i..Len(s) : ~IsDigit(s[x])}
    IN IF stops = {} THEN (IF i > Len(s) THEN i ELSE Len(s) + 1)
       ELSE CHOOSE x \in stops : \A y \in stops : x <= y

\* s[i] is a digit or a minus sign.  A leading zero ends the number.
ParseNumber(s, i) ==
    LET neg == s[i] = "-"
        d   == IF neg THEN i + 1 ELSE i
    IN IF d > Len(s) \/ ~IsDigit(s[d]) THEN ParseFail
       ELSE LET e == IF s[d] = "0" THEN d + 1 ELSE DigitsEnd(s, d)
                n == parseInt(SubSeq(s, d, e - 1))
            IN ParseOk(JNum(IF neg THEN 0 - n ELSE n), e)

ParseLiteral(s, i) ==
    LET fits(l) == SubSeq(s, i, i + Len(LitText(l)) - 1) = LitText(l)
    IN IF i + 3 <= Len(s) /\ fits("null") THEN ParseOk(JLit("null"), i + 4)
       ELSE IF i + 3 <= Len(s) /\ fits("true") THEN ParseOk(JLit("true"), i + 4)
       ELSE IF i + 4 <= Len(s) /\ fits("false")
       THEN ParseOk(JLit("false"), i + 5)
       ELSE ParseFail

RECURSIVE ParseValue(_, _), ParseMembers(_, _, _), ParseElements(_, _, _)
\* One JSON value starting at or after index i.
ParseValue(s, i) ==
    LET j == SkipWs(s, i)
    IN IF j > Len(s) THEN ParseFail
       ELSE IF s[j] = "{"
       THEN LET k == SkipWs(s, j + 1)
            IN IF k <= Len(s) /\ s[k] = "}" THEN ParseOk(JObj(<<>>), k + 1)
               ELSE ParseMembers(s, k, <<>>)
       ELSE IF s[j] = "["
       THEN LET k == SkipWs(s, j + 1)
            IN IF k <= Len(s) /\ s[k] = "]" THEN ParseOk(JArr(<<>>), k + 1)
               ELSE ParseElements(s, k, <<>>)
       ELSE IF s[j] = "\"" THEN ParseString(s, j)
       ELSE IF s[j] = "-" \/ IsDigit(s[j]) THEN ParseNumber(s, j)
       ELSE ParseLiteral(s, j)

\* The members of an object from index k (no whitespace at k) to its brace.
ParseMembers(s, k, acc) ==
    IF k > Len(s) \/ s[k] # "\"" THEN ParseFail
    ELSE LET key == ParseString(s, k)
         IN IF ~key.ok THEN ParseFail
            ELSE LET c == SkipWs(s, key.next)
                 IN IF c > Len(s) \/ s[c] # ":" THEN ParseFail
                    ELSE LET val == ParseValue(s, c + 1)
                         IN IF ~val.ok THEN ParseFail
                            ELSE LET e == SkipWs(s, val.next)
                                     m == SetMember(acc, key.v.s, val.v)
                                 IN IF e > Len(s) THEN ParseFail
                                    ELSE IF s[e] = "}"
                                    THEN ParseOk(JObj(m), e + 1)
                                    ELSE IF s[e] = ","
                                    THEN ParseMembers(s, SkipWs(s, e + 1), m)
                                    ELSE ParseFail

\* The elements of an array from index k to its bracket.
ParseElements(s, k, acc) ==
    LET val == ParseValue(s, k)
    IN IF ~val.ok THEN ParseFail
       ELSE LET e == SkipWs(s, val.next)
                a == Append(acc, val.v)
            IN IF e > Len(s) THEN ParseFail
               ELSE IF s[e] = "]" THEN ParseOk(JArr(a), e + 1)
               ELSE IF s[e] = "," THEN ParseElements(s, e + 1, a)
               ELSE ParseFail

\* JSON.parse(text): ok is FALSE where it throws a SyntaxError.
JSONparse(text) ==
    LET r == ParseValue(text, 1)
    IN IF r.ok /\ SkipWs(text, r.next) > Len(text)
       THEN [ok |-> TRUE, v |-> r.v]
       ELSE [ok |-> FALSE, v |-> JUndefined]

(***************************************************************************)
(* Message Framer                                                          *)
(***************************************************************************)
HeaderName == <<"c", "o", "n", "t", "e", "n", "t", "-", "l", "e", "n", "g",
                "t", "h", ":", " ">>

HeaderEnd == <<"\r", "\n", "\r", "\n">>

\* encodeMessage(msg)
encodeMessage(msg) ==
    LET content == stringify(msg)
    IN <<"C", "o", "n", "t", "e", "n", "t", "-", "L", "e", "n", "g", "t", "h",
         ":", " ">>
       \o NumberToString(byteLength(content)) \o HeaderEnd \o content

\* header.match(/Content-Length: (\d+)/i): the leftmost place where the
\* name, in any case, is followed by a digit, and the whole run of digits
\* there.  ok is FALSE when there is no match.
matchContentLength(header) ==
    LET hits == {k \in 1..(Len(header) - Len(HeaderName)) :
                    /\ \A x \in 1..Len(HeaderName) :
                          ToLower(header[k + x - 1]) = HeaderName[x]
                    /\ IsDigit(header[k + Len(HeaderName)])}
    IN IF hits = {} THEN [ok |-> FALSE, digits |-> <<>>]
       ELSE LET k == CHOOSE h \in hits : \A g \in hits : h <= g
                d == k + Len(HeaderName)
            IN [ok |-> TRUE,
                digits |-> SubSeq(header, d, DigitsEnd(header, d) - 1)]

\* The while loop of parseMessages, lines 116-138.
RECURSIVE ParseLoop(_, _)
ParseLoop(messages, remaining) ==
    LET headerEnd == indexOf(remaining, HeaderEnd)
    IN IF headerEnd = -1
       THEN [messages |-> messages, remaining |-> remaining]
       ELSE LET header == slice(remaining, 0, headerEnd)
                match  == matchContentLength(header)
            IN IF ~match.ok
               THEN ParseLoop(messages,
                              slice(remaining, headerEnd + 4, Len(remaining)))
               ELSE LET length == parseInt(match.digits)
                        start  == headerEnd + 4
                        end    == start + length
                    IN IF Len(remaining) < end
                       THEN [messages |-> messages, remaining |-> remaining]
                       ELSE LET parsed == JSONparse(slice(remaining, start, end))
                            IN ParseLoop(
                                 IF parsed.ok THEN Append(messages, parsed.v)
                                 ELSE messages,
                                 slice(remaining, end, Len(remaining)))

\* parseMessages(buffer)
parseMessages(buffer) == ParseLoop(<<>>, buffer)

VARIABLES
    pc,         \* pc[i]: where invocation i stands
    loc,        \* loc[i]: the locals of invocation i
    file,       \* file[p]: content of STATE_DIR/ra-<hash(p)>.json
    workers,    \* workers[pid]: every rust-analyzer process ever spawned
    listeners,  \* the bound proxy servers (Bun.listen results)
    envPorts,   \* ports bound by processes foreign to this program
    hostAlive,  \* hostAlive[i]: the process of invocation i still runs
    conns,      \* conns[i]: the client connection opened by invocation i
    \* one SimpleLspClient and its socket
    buffer,      \* this.buffer
    requestId,   \* this.requestId
    pending,     \* the ids that are keys of this.pending
    promises,    \* promises[id]: the promise request() returned for id
    diagnostics, \* this.diagnostics, as the list of its entries
    wire,        \* bytes the proxy has written and the client not yet read
    outbox,      \* the messages written to the client sockets, in order
    received,    \* every message parseMessages has returned, in order
    threw,       \* processBuffer has thrown out of the data handler
    timers,      \* the ids whose setTimeout callback has yet to run
    served,      \* how many messages the server has written (ClientSpec)
    input,       \* what the peer puts on the wire (FramerSpec)
    \* one invocation's queryDiagnostics calls
    call,        \* where the current queryDiagnostics call stands
    cache,       \* clientCache: whether it holds the client of the pair
    connects,    \* how many connections Bun.connect has opened
    wait         \* the waitForDiagnostics call in progress

daemonVars == <<pc, loc, file, workers, listeners, envPorts, hostAlive, conns>>

queryVars == <<call, cache, connects, wait>>

clientVars == <<buffer, requestId, pending, promises, diagnostics, wire,
                outbox, received, threw, timers, served, input,
                call, cache, connects, wait>>

vars == <<pc, loc, file, workers, listeners, envPorts, hostAlive, conns,
          buffer, requestId, pending, promises, diagnostics, wire,
          outbox, received, threw, timers, served, input,
          call, cache, connects, wait>>

(***************************************************************************)
(* Daemon State Store                                                      *)
(***************************************************************************)
Absent    == [kind |-> "absent"]       \* existsSync(statePath) = false
Malformed == [kind |-> "malformed"]    \* a file JSON.parse rejects
Null      == [kind |-> "null"]         \* the null a lookup returns

\* The DaemonState record spawnDaemon builds (startedAt, a wall-clock
\* reading, is not modelled).
DaemonState(pid, port, projectPath) ==
    [kind |-> "state", pid |-> pid, port |-> port,
     projectPath |-> projectPath, initialized |-> FALSE]

isProcessRunning(pid) ==
    pid \in 1..Len(workers) /\ workers[pid].alive

\* getDaemonState with line 50 left out: a stale record is reported absent
\* but its file is kept.
getDaemonStateKeepsStale(projectPath) ==
    LET content == file[projectPath] IN
    IF content.kind = "absent"
    THEN [result |-> Null, unlink |-> FALSE, found |-> "absent"]
    ELSE IF content.kind = "malformed"
    THEN [result |-> Null, unlink |-> FALSE, found |-> "malformed"]
    ELSE IF isProcessRunning(content.pid)
    THEN [result |-> content, unlink |-> FALSE, found |-> "live"]
    ELSE [result |-> Null, unlink |-> FALSE, found |-> "stale"]

\* getDaemonState up to, and excluding, the unlinkSync call: what it will
\* return and whether it goes on to unlink the file.
getDaemonState(projectPath) ==
    LET content == file[projectPath] IN
    IF content.kind = "absent"
    THEN [result |-> Null, unlink |-> FALSE, found |-> "absent"]
    ELSE IF content.kind = "malformed"
    THEN [result |-> Null, unlink |-> FALSE, found |-> "malformed"]
    ELSE IF isProcessRunning(content.pid)
    THEN [result |-> content, unlink |-> FALSE, found |-> "live"]
    ELSE [result |-> Null, unlink |-> TRUE, found |-> "stale"]

(***************************************************************************)
(* Port Allocator                                                          *)
(***************************************************************************)
BoundPorts == envPorts \cup {l.port : l \in listeners}

StartPort(projectPath) == BASE_PORT + (hashPath(projectPath) % HashRange)

\* The candidates findFreePort(start) can bind, in the order it tries them.
FreeCandidates(start) ==
    {port \in start .. (start + ProbeBudget - 1) : port \notin BoundPorts}

Min(S) == CHOOSE x \in S : \A y \in S : x <= y

\* findFreePort without the probe: the start port is taken as it is.
findFreePortNoProbe(start) == start

\* findFreePort: the first candidate that binds, or 0 for the thrown
\* "No free port found".
findFreePort(start) ==
    IF FreeCandidates(start) = {} THEN 0 ELSE Min(FreeCandidates(start))

(***************************************************************************)
(* Initial state: no invocation has started, no state file exists.         *)
(***************************************************************************)
NoLoc == [proj |-> "none", lookup |-> "none", state |-> Null, port |-> 0,
          pid |-> 0, ret |-> 0, err |-> "none"]

NoConn == [status |-> "none", pid |-> 0, live |-> FALSE, relay |-> FALSE,
           lost |-> FALSE]

DaemonInit ==
    /\ pc = [i \in Invocations |-> "idle"]
    /\ loc = [i \in Invocations |-> NoLoc]
    /\ file = [p \in Projects |-> Absent]
    /\ workers = <<>>
    /\ listeners = {}
    /\ envPorts = {}
    /\ hostAlive = [i \in Invocations |-> TRUE]
    /\ conns = [i \in Invocations |-> NoConn]

\* new SimpleLspClient(), lines 213-217, with nothing on its socket.
ClientNew ==
    /\ buffer = <<>>
    /\ requestId = 0
    /\ pending = {}
    /\ promises = <<>>
    /\ diagnostics = <<>>
    /\ outbox = <<>>
    /\ received = <<>>
    /\ threw = FALSE
    /\ timers = {}
    /\ served = 0

NoInput == [corrupt |-> <<>>, msgs |-> <<>>, tail |-> <<>>]

\* No waitForDiagnostics call is in progress.
NoWait == [state |-> "none", uri |-> JUndefined, timeoutMs |-> 0, elapsed |-> 0,
           wake |-> 0, result |-> JUndefined, recordedAt |-> -1]

\* No queryDiagnostics call has been made.
NoCall == [pc |-> "idle", n |-> 0, mark |-> 0, result |-> JUndefined]

\* The module-level clientCache of line 319 is empty at load.
QueryNew ==
    /\ call = NoCall
    /\ cache = "empty"
    /\ connects = 0
    /\ wait = NoWait

Init == DaemonInit /\ ClientNew /\ QueryNew /\ wire = <<>> /\ input = NoInput

(***************************************************************************)
(* ensureDaemon                                                            *)
(***************************************************************************)
\* ensureDaemon without the test of line 324: it goes on to spawnDaemon
\* whatever the lookup returned.
EnsureDaemonAlwaysSpawns(i, projectPath) ==
    /\ pc[i] = "idle"
    /\ LET r == getDaemonState(projectPath) IN
       /\ loc' = [loc EXCEPT ![i].proj = projectPath,
                             ![i].lookup = r.found,
                             ![i].state = Null]
       /\ pc' = [pc EXCEPT ![i] = IF r.unlink THEN "unlink" ELSE "findRA"]
    /\ UNCHANGED <<file, workers, listeners, envPorts, hostAlive, conns>>
    /\ UNCHANGED clientVars

\* ensureDaemon(projectPath) up to the end of getDaemonState's read: a live
\* record is returned at once (its port is the result), a stale one is to
\* be unlinked, and anything else leads to spawnDaemon.
EnsureDaemon(i, projectPath) ==
    /\ pc[i] = "idle"
    /\ LET r == getDaemonState(projectPath) IN
       /\ loc' = [loc EXCEPT ![i].proj = projectPath,
                             ![i].lookup = r.found,
                             ![i].state = r.result,
                             ![i].ret = IF r.result = Null THEN 0
                                        ELSE r.result.port]
       /\ pc' = [pc EXCEPT ![i] = IF r.unlink THEN "unlink"
                                  ELSE IF r.result = Null THEN "findRA"
                                  ELSE "done"]
    /\ UNCHANGED <<file, workers, listeners, envPorts, hostAlive, conns>>
    /\ UNCHANGED clientVars

\* getDaemonState, line 50: unlinkSync(statePath).  It removes whatever
\* file is there now; a missing file throws into the empty catch.
LookupUnlink(i) ==
    /\ pc[i] = "unlink"
    /\ file' = [file EXCEPT ![loc[i].proj] = Absent]
    /\ pc' = [pc EXCEPT ![i] = "findRA"]
    /\ UNCHANGED <<loc, workers, listeners, envPorts, hostAlive, conns>>
    /\ UNCHANGED clientVars

(***************************************************************************)
(* spawnDaemon                                                             *)
(***************************************************************************)
\* findRustAnalyzer: the environment decides whether nix or PATH has it.
FindRustAnalyzer(i, found) ==
    /\ pc[i] = "findRA"
    /\ IF found
       THEN /\ pc' = [pc EXCEPT ![i] = "findPort"]
            /\ loc' = loc
       ELSE /\ pc' = [pc EXCEPT ![i] = "failed"]
            /\ loc' = [loc EXCEPT ![i].err = "rust-analyzer not found"]
    /\ UNCHANGED <<file, workers, listeners, envPorts, hostAlive, conns>>
    /\ UNCHANGED clientVars

\* line 154: the probe; every probe socket is stopped before returning.
FindFreePort(i) ==
    /\ pc[i] = "findPort"
    /\ LET port == findFreePort(StartPort(loc[i].proj)) IN
       IF port = 0
       THEN /\ pc' = [pc EXCEPT ![i] = "failed"]
            /\ loc' = [loc EXCEPT ![i].err = "No free port found"]
       ELSE /\ pc' = [pc EXCEPT ![i] = "spawn"]
            /\ loc' = [loc EXCEPT ![i].port = port]
    /\ UNCHANGED <<file, workers, listeners, envPorts, hostAlive, conns>>
    /\ UNCHANGED clientVars

\* spawnDaemon with the writeFileSync of line 197 moved up to the spawn.
SpawnWorkerPersistFirst(i) ==
    /\ pc[i] = "spawn"
    /\ workers' = Append(workers, [proj |-> loc[i].proj, host |-> i,
                                   alive |-> TRUE, hook |-> "none",
                                   locked |-> FALSE])
    /\ loc' = [loc EXCEPT ![i].pid = Len(workers) + 1]
    /\ file' = [file EXCEPT ![loc[i].proj] =
                   DaemonState(Len(workers) + 1, loc[i].port, loc[i].proj)]
    /\ pc' = [pc EXCEPT ![i] = "listen"]
    /\ UNCHANGED <<listeners, envPorts, hostAlive, conns>>
    /\ UNCHANGED clientVars

\* lines 157-162: spawn([raPath], ...).  The new pid is the next index.
SpawnWorker(i) ==
    /\ pc[i] = "spawn"
    /\ workers' = Append(workers, [proj |-> loc[i].proj, host |-> i,
                                   alive |-> TRUE, hook |-> "none",
                                   locked |-> FALSE])
    /\ loc' = [loc EXCEPT ![i].pid = Len(workers) + 1]
    /\ pc' = [pc EXCEPT ![i] = "listen"]
    /\ UNCHANGED <<file, listeners, envPorts, hostAlive, conns>>
    /\ UNCHANGED clientVars

\* lines 165-187: Bun.listen on the probed port.  If the port was taken
\* since the probe the call throws out of spawnDaemon: the worker spawned
\* above keeps running, nothing is written and no exit hook is registered.
Listen(i) ==
    /\ pc[i] = "listen"
    /\ IF loc[i].port \in BoundPorts
       THEN /\ pc' = [pc EXCEPT ![i] = "failed"]
            /\ loc' = [loc EXCEPT ![i].err = "EADDRINUSE"]
            /\ listeners' = listeners
       ELSE /\ pc' = [pc EXCEPT ![i] = "persist"]
            /\ loc' = loc
            /\ listeners' = listeners \cup
                  {[port |-> loc[i].port, host |-> i, pid |-> loc[i].pid]}
    /\ UNCHANGED <<file, workers, envPorts, hostAlive, conns>>
    /\ UNCHANGED clientVars

\* lines 189-206: build the record, writeFileSync it, register the exit
\* callback and return the record.  ensureDaemon then awaits the sleep of
\* line 327: it has not returned yet, and the event loop of the process
\* (the exit callback included) and the other processes run meanwhile.
Persist(i) ==
    /\ pc[i] = "persist"
    /\ LET state == DaemonState(loc[i].pid, loc[i].port, loc[i].proj) IN
       /\ file' = [file EXCEPT ![loc[i].proj] = state]
       /\ loc' = [loc EXCEPT ![i].state = state]
    /\ workers' = [workers EXCEPT ![loc[i].pid].hook = "armed"]
    /\ pc' = [pc EXCEPT ![i] = "sleep"]
    /\ UNCHANGED <<listeners, envPorts, hostAlive, conns>>
    /\ UNCHANGED clientVars

\* lines 327-330: the sleep of 500 ms ends and ensureDaemon returns
\* state.port, the port of the record spawnDaemon returned.
EnsureDaemonReturn(i) ==
    /\ pc[i] = "sleep"
    /\ loc' = [loc EXCEPT ![i].ret = loc[i].state.port]
    /\ pc' = [pc EXCEPT ![i] = "done"]
    /\ UNCHANGED <<file, workers, listeners, envPorts, hostAlive, conns>>
    /\ UNCHANGED clientVars

(***************************************************************************)
(* Process Supervisor                                                      *)
(***************************************************************************)
\* The worker exits, for whatever reason; its stdout reaches end-of-stream.
WorkerExit(w) ==
    /\ w \in 1..Len(workers)
    /\ workers[w].alive
    /\ workers' = [workers EXCEPT ![w].alive = FALSE]
    /\ UNCHANGED <<pc, loc, file, listeners, envPorts, hostAlive, conns>>
    /\ UNCHANGED clientVars

\* lines 200-204: the ra.exited callback.  It runs in the event loop of the
\* process that spawned the worker, so only while that process lives.
\* server.stop() stops listening (open connections stay open); the state
\* file of the project is unlinked if one exists, whatever it names.
ExitHook(w) ==
    /\ w \in 1..Len(workers)
    /\ ~workers[w].alive
    /\ workers[w].hook = "armed"
    /\ hostAlive[workers[w].host]
    /\ listeners' = {l \in listeners : l.pid # w}
    /\ file' = [file EXCEPT ![workers[w].proj] = Absent]
    /\ workers' = [workers EXCEPT ![w].hook = "ran"]
    /\ UNCHANGED <<pc, loc, envPorts, hostAlive, conns>>
    /\ UNCHANGED clientVars

\* The process of invocation i ends once ensureDaemon has returned or
\* thrown (index.ts:63 process.exit(2) after the query, or the caller
\* killing the hook).  The OS closes its listeners and sockets; the worker
\* it spawned is a separate process and is not touched.
HostExit(i) ==
    /\ pc[i] \in {"done", "failed", "connected", "refused"}
    /\ hostAlive[i]
    /\ hostAlive' = [hostAlive EXCEPT ![i] = FALSE]
    /\ listeners' = {l \in listeners : l.host # i}
    /\ conns' = [j \in Invocations |->
                   IF /\ conns[j].status = "open"
                      /\ (j = i \/ workers[conns[j].pid].host = i)
                   THEN [conns[j] EXCEPT !.status = "closed"]
                   ELSE conns[j]]
    /\ UNCHANGED <<pc, loc, file, workers, envPorts>>
    /\ UNCHANGED clientVars

(***************************************************************************)
(* Proxy Listener                                                          *)
(***************************************************************************)
\* queryDiagnostics, line 343: client.connect(port), and the listener's
\* open handler (lines 173-183) on the accepting side.  ra.stdout is one
\* ReadableStream: getReader() locks it, nothing ever releases the lock,
\* and getReader() on a locked stream throws, so the relay loop of lines
\* 176-182 starts only for the connection that takes the lock.
Connect(i) ==
    /\ pc[i] = "done"
    /\ hostAlive[i]
    /\ LET accepting == {l \in listeners : l.port = loc[i].ret} IN
       IF accepting = {}
       THEN /\ pc' = [pc EXCEPT ![i] =
                        IF loc[i].ret \in envPorts THEN "connected"
                        ELSE "refused"]
            /\ UNCHANGED <<workers, conns>>
       ELSE LET w == (CHOOSE l \in accepting : TRUE).pid IN
            /\ pc' = [pc EXCEPT ![i] = "connected"]
            /\ conns' = [conns EXCEPT ![i] =
                           [status |-> "open", pid |-> w,
                            live |-> workers[w].alive,
                            relay |-> ~workers[w].locked,
                            lost |-> FALSE]]
            /\ workers' = [workers EXCEPT ![w].locked = TRUE]
    /\ UNCHANGED <<loc, file, listeners, envPorts, hostAlive>>
    /\ UNCHANGED clientVars

\* One turn of the relay loop started for connection i, lines 177-181:
\* reader.read() takes the next chunk the worker has written and
\* socket.write hands it to the connection.  The loop ends only at
\* end-of-stream (the close handler of line 184 is empty), and it lives in
\* the process that spawned the worker.  conns[i].lost notes that a chunk
\* was taken from the worker's output when the connection had closed.
RelayChunk(i) ==
    /\ conns[i].status \in {"open", "closed"}
    /\ conns[i].relay
    /\ workers[conns[i].pid].alive
    /\ hostAlive[workers[conns[i].pid].host]
    /\ conns' = [conns EXCEPT ![i].lost = (conns[i].status = "closed")]
    /\ UNCHANGED <<pc, loc, file, workers, listeners, envPorts, hostAlive>>
    /\ UNCHANGED clientVars

(***************************************************************************)
(* The environment: other programs binding and releasing ports.            *)
(***************************************************************************)
\* Foreign processes occupy every port of the range that is still free.
EnvBindAll ==
    /\ Ports \ BoundPorts # {}
    /\ envPorts' = Ports \ {l.port : l \in listeners}
    /\ UNCHANGED <<pc, loc, file, workers, listeners, hostAlive, conns>>
    /\ UNCHANGED clientVars

\* The foreign processes go away.
EnvRelease ==
    /\ envPorts # {}
    /\ envPorts' = {}
    /\ UNCHANGED <<pc, loc, file, workers, listeners, hostAlive, conns>>
    /\ UNCHANGED clientVars

(***************************************************************************)
(* RPC Client: the data handler                                            *)
(***************************************************************************)
K_jsonrpc == <<"j", "s", "o", "n", "r", "p", "c">>
K_id      == <<"i", "d">>
K_method  == <<"m", "e", "t", "h", "o", "d">>
K_params  == <<"p", "a", "r", "a", "m", "s">>
K_result  == <<"r", "e", "s", "u", "l", "t">>
K_error   == <<"e", "r", "r", "o", "r">>
K_message == <<"m", "e", "s", "s", "a", "g", "e">>
K_uri     == <<"u", "r", "i">>
K_diagnostics == <<"d", "i", "a", "g", "n", "o", "s", "t", "i", "c", "s">>

PublishDiagnostics == JStr(<<"t", "e", "x", "t", "D", "o", "c", "u", "m", "e", "n", "t", "/", "p", "u", "b", "l", "i", "s", "h", "D", "i", "a", "g", "n", "o", "s", "t", "i", "c", "s">>)

\* The truthiness of a value, as the test if (msg.error) sees it.
Truthy(v) ==
    ~ \/ v.t = "undefined"
      \/ (v.t = "lit" /\ v.l \in {"null", "false"})
      \/ (v.t = "num" /\ v.n = 0)
      \/ (v.t = "str" /\ v.s = <<>>)

\* v.key for a value that is neither null nor undefined.
GetProp(v, k) == IF v.t = "obj" THEN Get(v, k) ELSE JUndefined

\* The loop body with responses matched to the oldest pending request
\* instead of the request that has the response's id.
DispatchOldestPending(c, msg) ==
    IF msg.t \in {"num", "str", "lit"} THEN [c EXCEPT !.threw = TRUE]
    ELSE IF msg.t = "obj" /\ HasKey(msg, K_id) /\ c.pending # {}
    THEN LET id    == CHOOSE x \in c.pending : \A y \in c.pending : x <= y
             error == Get(msg, K_error)
         IN [c EXCEPT
               !.pending = @ \ {id},
               !.promises[id] =
                  IF Truthy(error)
                  THEN [state |-> "rejected", value |-> GetProp(error, K_message)]
                  ELSE [state |-> "resolved", value |-> Get(msg, K_result)]]
    ELSE c

\* The loop body without the test this.pending.has(msg.id): a message with
\* the id of any request issued settles that request's promise again.
DispatchSettlesAnyId(c, msg) ==
    IF msg.t \in {"num", "str", "lit"} THEN [c EXCEPT !.threw = TRUE]
    ELSE IF /\ msg.t = "obj"
            /\ HasKey(msg, K_id)
            /\ Get(msg, K_id).t = "num"
            /\ Get(msg, K_id).n \in 1..Len(c.promises)
    THEN LET id    == Get(msg, K_id).n
             error == Get(msg, K_error)
         IN [c EXCEPT
               !.pending = @ \ {id},
               !.promises[id] =
                  IF Truthy(error)
                  THEN [state |-> "rejected",
                        value |-> GetProp(error, K_message)]
                  ELSE [state |-> "resolved",
                        value |-> Get(msg, K_result)]]
    ELSE c

\* The loop body with a push merged into the entry of its uri: the pushed
\* diagnostics are appended to those already recorded.
DispatchMergesDiagnostics(c, msg) ==
    IF msg.t \in {"num", "str", "lit"} THEN [c EXCEPT !.threw = TRUE]
    ELSE IF /\ msg.t = "obj"
            /\ HasKey(msg, K_id)
            /\ Get(msg, K_id).t = "num"
            /\ Get(msg, K_id).n \in c.pending
    THEN LET id    == Get(msg, K_id).n
             error == Get(msg, K_error)
         IN [c EXCEPT
               !.pending = @ \ {id},
               !.promises[id] =
                  IF Truthy(error)
                  THEN [state |-> "rejected",
                        value |-> GetProp(error, K_message)]
                  ELSE [state |-> "resolved",
                        value |-> Get(msg, K_result)]]
    ELSE IF GetProp(msg, K_method) = PublishDiagnostics
    THEN LET params == Get(msg, K_params)
             old    == Get(JObj(c.diagnostics), GetProp(params, K_uri))
             new    == GetProp(params, K_diagnostics)
         IN [c EXCEPT !.diagnostics =
                SetMember(@, GetProp(params, K_uri),
                          IF old.t = "arr" /\ new.t = "arr"
                          THEN JArr(old.a \o new.a) ELSE new)]
    ELSE c

\* One turn of the loop of lines 239-248 on the client state c.  The in
\* operator throws a TypeError on a message that is no object, and so does
\* reading msg.params.uri without params.
Dispatch(c, msg) ==
    IF msg.t \in {"num", "str", "lit"} THEN [c EXCEPT !.threw = TRUE]
    ELSE IF /\ msg.t = "obj"
            /\ HasKey(msg, K_id)
            /\ Get(msg, K_id).t = "num"
            /\ Get(msg, K_id).n \in c.pending
    THEN LET id    == Get(msg, K_id).n
             error == Get(msg, K_error)
         IN [c EXCEPT
               !.pending = @ \ {id},
               !.promises[id] =
                  IF @.state # "pending" THEN @
                  ELSE IF Truthy(error)
                  THEN [state |-> "rejected",
                        value |-> GetProp(error, K_message)]
                  ELSE [state |-> "resolved",
                        value |-> Get(msg, K_result)]]
    ELSE IF GetProp(msg, K_method) = PublishDiagnostics
    THEN LET params == Get(msg, K_params)
         IN IF params.t = "undefined" \/ params = JLit("null")
            THEN [c EXCEPT !.threw = TRUE]
            ELSE [c EXCEPT !.diagnostics =
                     SetMember(@, GetProp(params, K_uri),
                               GetProp(params, K_diagnostics))]
    ELSE c

\* The for loop of processBuffer; an exception ends it.
RECURSIVE DispatchAll(_, _)
DispatchAll(c, msgs) ==
    IF msgs = <<>> \/ c.threw THEN c
    ELSE DispatchAll(Dispatch(c, Head(msgs)), Tail(msgs))

\* this.diagnostics.get(uri) on the entries diags.
DiagnosticsGet(diags, uri) == Get(JObj(diags), uri)

\* Bookkeeping for a waitForDiagnostics call in progress: the reading of
\* Date.now() - start the loop took before the sleep during which an entry
\* for its uri first existed.  The entry was recorded less than
\* PollInterval after that reading if it arrived before the sleep was due.
Observe(w, diags) ==
    IF /\ w.state = "asleep"
       /\ w.recordedAt = -1
       /\ DiagnosticsGet(diags, w.uri).t # "undefined"
    THEN [w EXCEPT !.recordedAt = w.elapsed]
    ELSE w

\* The socket's data handler, lines 224-227, with processBuffer, lines
\* 235-249, on a chunk of the first k bytes on the wire.
Data(k) ==
    /\ k \in 1..Len(wire)
    /\ LET r == parseMessages(buffer \o TextDecode(SubSeq(wire, 1, k)))
           c == DispatchAll([pending |-> pending, promises |-> promises,
                             diagnostics |-> diagnostics, threw |-> FALSE],
                            r.messages)
       IN /\ buffer' = r.remaining
          /\ received' = received \o r.messages
          /\ pending' = c.pending
          /\ promises' = c.promises
          /\ diagnostics' = c.diagnostics
          /\ threw' = (threw \/ c.threw)
          /\ wait' = Observe(wait, c.diagnostics)
    /\ wire' = SubSeq(wire, k + 1, Len(wire))
    /\ UNCHANGED <<requestId, outbox, timers, served, input>>
    /\ UNCHANGED <<call, cache, connects>>
    /\ UNCHANGED daemonVars

(***************************************************************************)
(* FramerSpec: a peer writes framed messages, possibly after a corrupt     *)
(* unit and possibly followed by the beginning of one more message; the    *)
(* transport hands the bytes to the data handler in chunks of any size.    *)
(***************************************************************************)
AsciiMsg1 == JObj(<<Member(<<"a">>, JNum(1))>>)                \* {"a":1}
AsciiMsg2 == JObj(<<Member(<<"b">>, JStr(<<"x", "y">>))>>)     \* {"b":"xy"}
Utf8Msg   == JObj(<<Member(<<"c">>, JStr(<<"U+00E9">>))>>)     \* {"c":"e-acute"}

FramerMessages == {AsciiMsg1, AsciiMsg2, Utf8Msg}

\* A header block that names no length.
NoLengthUnit == <<"X", ":", " ", "y", "\r", "\n", "\r", "\n">>
\* Headers that announce fewer, and more, bytes than the payload {} has.
ShortLengthUnit == <<"C", "o", "n", "t", "e", "n", "t", "-", "L", "e", "n", "g", "t", "h", ":", " ", "1", "\r", "\n", "\r", "\n", "{", "}">>
LongLengthUnit == <<"C", "o", "n", "t", "e", "n", "t", "-", "L", "e", "n", "g", "t", "h", ":", " ", "9", "\r", "\n", "\r", "\n", "{", "}">>
\* A payload of the announced length that is no JSON.
BadPayloadUnit == <<"C", "o", "n", "t", "e", "n", "t", "-", "L", "e", "n", "g", "t", "h", ":", " ", "2", "\r", "\n", "\r", "\n", "{", "x">>

CorruptUnits == {NoLengthUnit, ShortLengthUnit, LongLengthUnit, BadPayloadUnit}

\* Beginnings of a framed message: a cut inside the header name, inside
\* the blank line, and inside the payload.
IncompleteTails ==
    LET e == encodeMessage(AsciiMsg1)
    IN {SubSeq(e, 1, n) : n \in {11, indexOf(e, HeaderEnd) + 3, Len(e) - 1}}

FramerInputs ==
    {[corrupt |-> <<>>, msgs |-> <<m>>, tail |-> <<>>] : m \in FramerMessages}
    \cup {[corrupt |-> <<>>, msgs |-> pair, tail |-> t] :
            pair \in {<<m1, m2>> : m1 \in {AsciiMsg1}, m2 \in FramerMessages}
                     \cup {<<m1, m2>> : m1 \in FramerMessages, m2 \in {AsciiMsg2}},
            t \in IncompleteTails}
    \cup {[corrupt |-> u, msgs |-> <<m>>, tail |-> <<>>] :
            u \in CorruptUnits, m \in FramerMessages}

RECURSIVE EncodeAll(_)
EncodeAll(msgs) ==
    IF msgs = <<>> THEN <<>>
    ELSE encodeMessage(Head(msgs)) \o EncodeAll(Tail(msgs))

\* The characters the peer writes for an input.
Stream(in) == in.corrupt \o EncodeAll(in.msgs) \o in.tail

FramerInit ==
    /\ DaemonInit
    /\ ClientNew
    /\ QueryNew
    /\ input \in FramerInputs
    /\ wire = Utf8Encode(Stream(input))

FramerNext == \E k \in 1..Len(wire) : Data(k)

FramerSpec == FramerInit /\ [][FramerNext]_vars

(***************************************************************************)
(* ClientSpec: one SimpleLspClient issuing requests, the server answering  *)
(* in any order (and pushing diagnostics), request timers firing.          *)
(***************************************************************************)
PendingPromise == [state |-> "pending", value |-> JUndefined]

RequestTimeout == JStr(<<"R", "e", "q", "u", "e", "s", "t", " ", "t", "i", "m", "e", "o", "u", "t">>)

\* The methods a request is issued for.
RequestMethods == {<<"i", "n", "i", "t", "i", "a", "l", "i", "z", "e">>, <<"s", "h", "u", "t", "d", "o", "w", "n">>}

\* The object request() sends, line 259; params is undefined here, and
\* JSON.stringify leaves an undefined member out.
RequestMessage(id, method) ==
    JObj(<<Member(K_jsonrpc, JStr(<<"2", ".", "0">>)), Member(K_id, JNum(id)),
           Member(K_method, JStr(method))>>)

\* request(method), lines 255-267: take the next id, register the pending
\* entry, write the message, arm the 30 s timer.
Request(method) ==
    /\ requestId < MaxRequests
    /\ requestId' = requestId + 1
    /\ pending' = pending \cup {requestId + 1}
    /\ promises' = Append(promises, PendingPromise)
    /\ outbox' = Append(outbox, RequestMessage(requestId + 1, method))
    /\ timers' = timers \cup {requestId + 1}
    /\ UNCHANGED <<buffer, diagnostics, wire, received, threw, served, input>>
    /\ UNCHANGED queryVars
    /\ UNCHANGED daemonVars

\* The timer callback rejecting every pending request instead of its own.
TimeoutRejectsAll(id) ==
    /\ id \in timers
    /\ timers' = timers \ {id}
    /\ IF id \in pending
       THEN /\ pending' = {}
            /\ promises' = [x \in 1..Len(promises) |->
                              IF x \in pending
                              THEN [state |-> "rejected", value |-> RequestTimeout]
                              ELSE promises[x]]
       ELSE UNCHANGED <<pending, promises>>
    /\ UNCHANGED <<buffer, requestId, diagnostics, wire, outbox, received,
                   threw, served, input>>
    /\ UNCHANGED queryVars
    /\ UNCHANGED daemonVars

\* The setTimeout callback of lines 260-265 for request id.
Timeout(id) ==
    /\ id \in timers
    /\ timers' = timers \ {id}
    /\ IF id \in pending
       THEN /\ pending' = pending \ {id}
            /\ promises' = [promises EXCEPT ![id] =
                              IF @.state = "pending"
                              THEN [state |-> "rejected", value |-> RequestTimeout]
                              ELSE @]
       ELSE UNCHANGED <<pending, promises>>
    /\ UNCHANGED <<buffer, requestId, diagnostics, wire, outbox, received,
                   threw, served, input>>
    /\ UNCHANGED queryVars
    /\ UNCHANGED daemonVars

\* What the server may write: a response to any id, with a result or with
\* an error, and a diagnostics push.
ResultOf(id) == JStr(<<"r", Digit[id + 1]>>)
ErrorOf(id)  == JObj(<<Member(K_message, JStr(<<"e", Digit[id + 1]>>))>>)

ResultResponse(id) == JObj(<<Member(K_id, JNum(id)), Member(K_result, ResultOf(id))>>)
ErrorResponse(id)  == JObj(<<Member(K_id, JNum(id)), Member(K_error, ErrorOf(id))>>)

DocumentUri == JStr(<<"f", "i", "l", "e", ":", "/", "/", "/", "a", ".", "r", "s">>)

DiagnosticsPush(diags) ==
    JObj(<<Member(K_method, PublishDiagnostics),
           Member(K_params, JObj(<<Member(K_uri, DocumentUri),
                                   Member(K_diagnostics, diags)>>))>>)

ServerMessages ==
    {ResultResponse(id) : id \in 1..MaxRequests}
    \cup {ErrorResponse(id) : id \in 1..MaxRequests}
    \cup {DiagnosticsPush(JArr(<<>>))}

\* The server (rust-analyzer behind the proxy) writes one framed message.
ServerWrite(msg) ==
    /\ served < MaxServerMsgs
    /\ served' = served + 1
    /\ wire' = wire \o Utf8Encode(encodeMessage(msg))
    /\ UNCHANGED <<buffer, requestId, pending, promises, diagnostics, outbox,
                   received, threw, timers, input>>
    /\ UNCHANGED queryVars
    /\ UNCHANGED daemonVars

\* The sizes of the chunk the transport may hand over next: all that is on
\* the wire, or the first half of it.
ClientChunks == {Len(wire), (Len(wire) + 1) \div 2}

ClientInit ==
    DaemonInit /\ ClientNew /\ QueryNew /\ wire = <<>> /\ input = NoInput

ClientNext ==
    \/ \E method \in RequestMethods : Request(method)
    \/ \E id \in 1..MaxRequests : Timeout(id)
    \/ \E msg \in ServerMessages : ServerWrite(msg)
    \/ \E k \in ClientChunks : Data(k)

ClientSpec == ClientInit /\ [][ClientNext]_vars

(***************************************************************************)
(* QuerySpec: one invocation calling queryDiagnostics, one call after the  *)
(* other, for one (project, port) pair and one file; the server answers    *)
(* and pushes what and when it likes.  Time is read only by                *)
(* waitForDiagnostics, as Date.now() - start, and advances with its        *)
(* sleeps, which end on time.                                              *)
(***************************************************************************)
M_initialize  == <<"i", "n", "i", "t", "i", "a", "l", "i", "z", "e">>
M_initialized == <<"i", "n", "i", "t", "i", "a", "l", "i", "z", "e", "d">>
M_didOpen     == <<"t", "e", "x", "t", "D", "o", "c", "u", "m", "e", "n", "t", "/", "d", "i", "d", "O", "p", "e", "n">>

\* process.pid of the invocation.
ProcessId == 4242

RootUri  == JStr(<<"f", "i", "l", "e", ":", "/", "/", "/", "w", "/", "a">>)
OtherUri == JStr(<<"f", "i", "l", "e", ":", "/", "/", "/", "b", ".", "r", "s">>)

\* The params of the initialize request, lines 275-282.
InitializeParams ==
    JObj(<<Member(<<"p", "r", "o", "c", "e", "s", "s", "I", "d">>, JNum(ProcessId)),
           Member(<<"r", "o", "o", "t", "U", "r", "i">>, RootUri),
           Member(<<"c", "a", "p", "a", "b", "i", "l", "i", "t", "i", "e", "s">>,
                  JObj(<<Member(<<"t", "e", "x", "t", "D", "o", "c", "u", "m", "e", "n", "t">>,
                                JObj(<<Member(<<"p", "u", "b", "l", "i", "s", "h", "D", "i", "a", "g", "n", "o", "s", "t", "i", "c", "s">>,
                                              JObj(<<Member(<<"r", "e", "l", "a", "t", "e", "d", "I", "n", "f", "o", "r", "m", "a", "t", "i", "o", "n">>, JLit("true"))>>))>>))>>))>>)

\* The object request(method, params) sends, line 259.
RequestWith(id, method, params) ==
    JObj(<<Member(K_jsonrpc, JStr(<<"2", ".", "0">>)), Member(K_id, JNum(id)),
           Member(K_method, JStr(method)), Member(K_params, params)>>)

\* The object notify(method, params) sends, line 270.
Notification(method, params) ==
    JObj(<<Member(K_jsonrpc, JStr(<<"2", ".", "0">>)),
           Member(K_method, JStr(method)), Member(K_params, params)>>)

\* The content of the file at the n-th call.
FileText(n) == JStr(<<"v", Digit[n + 1]>>)

\* The params of didOpen(uri, text), lines 287-289.
DidOpenParams(uri, text) ==
    JObj(<<Member(<<"t", "e", "x", "t", "D", "o", "c", "u", "m", "e", "n", "t">>,
                  JObj(<<Member(K_uri, uri),
                         Member(<<"l", "a", "n", "g", "u", "a", "g", "e", "I", "d">>, JStr(<<"r", "u", "s", "t">>)),
                         Member(<<"v", "e", "r", "s", "i", "o", "n">>, JNum(1)),
                         Member(<<"t", "e", "x", "t">>, text)>>))>>)

\* One turn of the loop of waitForDiagnostics, lines 305-309, at the
\* reading w.elapsed of Date.now() - start, and the return of line 310.
PollStep(w, diags) ==
    IF w.elapsed < w.timeoutMs
    THEN LET d == DiagnosticsGet(diags, w.uri)
         IN IF d.t # "undefined"
            THEN [w EXCEPT !.state = "returned", !.result = d]
            ELSE [w EXCEPT !.state = "asleep",
                           !.wake = w.elapsed + PollInterval]
    ELSE [w EXCEPT !.state = "returned", !.result = JArr(<<>>)]

\* waitForDiagnostics(uri, timeoutMs) up to its first await.
waitForDiagnostics(uri, timeoutMs, diags) ==
    PollStep([state |-> "asleep", uri |-> uri, timeoutMs |-> timeoutMs,
              elapsed |-> 0, wake |-> 0, result |-> JUndefined,
              recordedAt |-> IF DiagnosticsGet(diags, uri).t # "undefined"
                             THEN 0 ELSE -1],
             diags)

\* queryDiagnostics with line 339 replaced by a miss: every call builds a
\* client of its own.
QueryStartNoCache ==
    /\ call.pc \in {"idle", "returned", "threw"}
    /\ call.n < MaxCalls
    /\ call' = [call EXCEPT !.pc = "connect", !.n = @ + 1]
    /\ buffer' = <<>>
    /\ requestId' = 0
    /\ pending' = {}
    /\ promises' = <<>>
    /\ diagnostics' = <<>>
    /\ received' = <<>>
    /\ threw' = FALSE
    /\ timers' = {}
    /\ wire' = <<>>
    /\ UNCHANGED <<outbox, served, input, cache, connects, wait>>
    /\ UNCHANGED daemonVars

\* queryDiagnostics, lines 338-342: a call starts when the one before it
\* has returned or thrown.  On a cache hit the cached client is used; on a
\* miss a new SimpleLspClient (lines 213-217) is built, with a socket of
\* its own, and the client of an earlier failed call is unreachable.
QueryStart ==
    /\ call.pc \in {"idle", "returned", "threw"}
    /\ call.n < MaxCalls
    /\ IF cache = "client"
       THEN /\ call' = [call EXCEPT !.pc = "read", !.n = @ + 1]
            /\ UNCHANGED <<buffer, requestId, pending, promises, diagnostics,
                           received, threw, timers, wire>>
       ELSE /\ call' = [call EXCEPT !.pc = "connect", !.n = @ + 1]
            /\ buffer' = <<>>
            /\ requestId' = 0
            /\ pending' = {}
            /\ promises' = <<>>
            /\ diagnostics' = <<>>
            /\ received' = <<>>
            /\ threw' = FALSE
            /\ timers' = {}
            /\ wire' = <<>>
    /\ UNCHANGED <<outbox, served, input, cache, connects, wait>>
    /\ UNCHANGED daemonVars

\* line 343, await client.connect(port), and, once connected, line 344 up
\* to the await inside initialize: request("initialize", ...) takes the next
\* id, registers the pending entry, writes the message and arms the timer.
\* A refused connection throws out of queryDiagnostics.
QueryConnect(ok) ==
    /\ call.pc = "connect"
    /\ IF ok
       THEN /\ connects' = connects + 1
            /\ call' = [call EXCEPT !.pc = "init"]
            /\ requestId' = requestId + 1
            /\ pending' = pending \cup {requestId + 1}
            /\ promises' = Append(promises, PendingPromise)
            /\ outbox' = Append(outbox, RequestWith(requestId + 1, M_initialize,
                                                    InitializeParams))
            /\ timers' = timers \cup {requestId + 1}
       ELSE /\ call' = [call EXCEPT !.pc = "threw"]
            /\ UNCHANGED <<connects, requestId, pending, promises, outbox,
                           timers>>
    /\ UNCHANGED <<buffer, diagnostics, wire, received, threw, served, input,
                   cache, wait>>
    /\ UNCHANGED daemonVars

\* initialize with the acknowledgement written without the await of
\* line 274: it goes out as soon as the request is written.
AwaitInitializeEager ==
    /\ call.pc = "init"
    /\ outbox' = Append(outbox, Notification(M_initialized, JObj(<<>>)))
    /\ cache' = "client"
    /\ call' = [call EXCEPT !.pc = "read"]
    /\ UNCHANGED <<buffer, requestId, pending, promises, diagnostics, wire,
                   received, threw, timers, served, input, connects, wait>>
    /\ UNCHANGED daemonVars

\* The rest of initialize and line 345, once the promise of the initialize
\* request is settled: resolved, the initialized notification is written
\* and the client is stored in the cache; rejected (an error response or
\* the timeout), the rejection throws out of queryDiagnostics.
AwaitInitialize ==
    /\ call.pc = "init"
    /\ promises[requestId].state # "pending"
    /\ IF promises[requestId].state = "resolved"
       THEN /\ outbox' = Append(outbox, Notification(M_initialized, JObj(<<>>)))
            /\ cache' = "client"
            /\ call' = [call EXCEPT !.pc = "read"]
       ELSE /\ call' = [call EXCEPT !.pc = "threw"]
            /\ UNCHANGED <<outbox, cache>>
    /\ UNCHANGED <<buffer, requestId, pending, promises, diagnostics, wire,
                   received, threw, timers, served, input, connects, wait>>
    /\ UNCHANGED daemonVars

\* lines 348-354, once the file has been read: didOpen is written and
\* waitForDiagnostics runs up to its first await.  call.mark notes how many
\* messages the client had decoded when the document was announced.
QueryOpen ==
    /\ call.pc = "read"
    /\ outbox' = Append(outbox, Notification(M_didOpen,
                            DidOpenParams(DocumentUri, FileText(call.n))))
    /\ wait' = waitForDiagnostics(DocumentUri, QueryWaitMs, diagnostics)
    /\ call' = [call EXCEPT !.pc = "wait", !.mark = Len(received)]
    /\ UNCHANGED <<buffer, requestId, pending, promises, diagnostics, wire,
                   received, threw, timers, served, input, cache, connects>>
    /\ UNCHANGED daemonVars

\* By how many milliseconds a Bun.sleep(100) may end after it is due: on
\* time, a little late, or after a stall of the process as long as the
\* whole wait.  The runtime promises only that it does not end early.
SleepOvershoot == {0, 30, QueryWaitMs}

\* The sleep of line 308 ends, late milliseconds after it was due, and the
\* loop takes its next turn with the reading of Date.now() - start that
\* line 305 then takes.
Poll(late) ==
    /\ wait.state = "asleep"
    /\ wait' = PollStep([wait EXCEPT !.elapsed = wait.wake + late],
                        diagnostics)
    /\ UNCHANGED <<buffer, requestId, pending, promises, diagnostics, wire,
                   outbox, received, threw, timers, served, input, call, cache,
                   connects>>
    /\ UNCHANGED daemonVars

\* lines 354-356: queryDiagnostics returns what waitForDiagnostics returned.
QueryReturn ==
    /\ call.pc = "wait"
    /\ wait.state = "returned"
    /\ call' = [call EXCEPT !.pc = "returned", !.result = wait.result]
    /\ UNCHANGED <<buffer, requestId, pending, promises, diagnostics, wire,
                   outbox, received, threw, timers, served, input, cache,
                   connects, wait>>
    /\ UNCHANGED daemonVars

DiagA == JArr(<<JNum(1)>>)
DiagB == JArr(<<JNum(2)>>)

DiagnosticsPushFor(uri, diags) ==
    JObj(<<Member(K_method, PublishDiagnostics),
           Member(K_params, JObj(<<Member(K_uri, uri),
                                   Member(K_diagnostics, diags)>>))>>)

\* What the server may write to the client of the call: the response to
\* the initialize request, with a result or with an error, and pushes for
\* the document and for another one.
QueryServerMessages ==
    {ResultResponse(1), ErrorResponse(1),
     DiagnosticsPushFor(DocumentUri, DiagA),
     DiagnosticsPushFor(DocumentUri, DiagB),
     DiagnosticsPushFor(OtherUri, DiagA)}

\* The client in use has a connection: connect has resolved and initialize
\* has issued its request.
Connected == requestId > 0

QueryInit ==
    DaemonInit /\ ClientNew /\ QueryNew /\ wire = <<>> /\ input = NoInput

QueryNext ==
    \/ QueryStart
    \/ \E ok \in BOOLEAN : QueryConnect(ok)
    \/ AwaitInitialize
    \/ QueryOpen
    \/ \E late \in SleepOvershoot : Poll(late)
    \/ QueryReturn
    \/ \E id \in 1..MaxRequests : Timeout(id)
    \/ \E msg \in QueryServerMessages : (Connected /\ ServerWrite(msg))
    \/ Data(Len(wire))

QuerySpec == QueryInit /\ [][QueryNext]_vars

Next ==
    \/ \E i \in Invocations, p \in Projects : EnsureDaemon(i, p)
    \/ \E i \in Invocations : LookupUnlink(i)
    \/ \E i \in Invocations, found \in BOOLEAN : FindRustAnalyzer(i, found)
    \/ \E i \in Invocations : FindFreePort(i)
    \/ \E i \in Invocations : SpawnWorker(i)
    \/ \E i \in Invocations : Listen(i)
    \/ \E i \in Invocations : Persist(i)
    \/ \E i \in Invocations : EnsureDaemonReturn(i)
    \/ \E w \in Invocations : WorkerExit(w)
    \/ \E w \in Invocations : ExitHook(w)
    \/ \E i \in Invocations : HostExit(i)
    \/ \E i \in Invocations : Connect(i)
    \/ \E i \in Invocations : RelayChunk(i)
    \/ EnvBindAll
    \/ EnvRelease

Spec == Init /\ [][Next]_vars

FairSpec == Spec /\ \A w \in Invocations : WF_vars(ExitHook(w))

(***************************************************************************)
(* Claims about the daemon.                                                *)
(***************************************************************************)
\* The process with this pid exists (what process.kill(pid, 0) probes).
PidExists(pid) == pid \in 1..Len(workers) /\ workers[pid].alive

LiveWorkersOf(p) ==
    {w \in 1..Len(workers) : workers[w].alive /\ workers[w].proj = p}

\* C1: for every project, at most one live worker spawned for it exists at
\* a time, whatever the interleaving of the invocations' ensureDaemon calls.
C1_AtMostOneLiveWorker ==
    \A p \in Projects : Cardinality(LiveWorkersOf(p)) <= 1

\* C2: every connection the proxy listener accepts while its worker lives
\* gets a relay from the worker's standard output.
C2_EveryConnectionRelayed ==
    \A i \in Invocations :
        (conns[i].status # "none" /\ conns[i].live) => conns[i].relay

\* C3: whenever a worker has exited, eventually no listener started for it
\* is bound and the state file of its project no longer holds its record.
C3_ExitCleansUp ==
    \A w \in Invocations :
        (w <= Len(workers) /\ ~workers[w].alive)
        ~> (/\ w <= Len(workers)
            /\ \A l \in listeners : l.pid # w
            /\ ~(/\ file[workers[w].proj].kind = "state"
                 /\ file[workers[w].proj].pid = w))

\* C4: an invocation whose ensureDaemon failed (no executable, no free port
\* or the listener failing to bind) leaves behind no listener of its own
\* without a live worker, and no state file naming a worker of its own that
\* is not running.
C4_FailureLeavesNothing ==
    \A i \in Invocations :
        pc[i] = "failed" =>
            /\ \A l \in listeners : l.host = i => PidExists(l.pid)
            /\ \A p \in Projects :
                 (/\ file[p].kind = "state"
                  /\ file[p].pid \in 1..Len(workers)
                  /\ workers[file[p].pid].host = i) => PidExists(file[p].pid)

\* The listener of invocation i failed to bind after its worker was
\* spawned, and that worker has since exited.
C4_Witness ==
    \E i \in Invocations :
        /\ pc[i] = "failed"
        /\ loc[i].err = "EADDRINUSE"
        /\ ~PidExists(loc[i].pid)

\* C5: a lookup that finds a record of a live process returns that record
\* and leaves the file in place; one that finds a record of a process that
\* does not exist returns absent and deletes the file, after which a second
\* lookup returns absent and has nothing to delete.
C5_LookupContract ==
    [][\A i \in Invocations :
         /\ (pc[i] = "idle" /\ pc'[i] # "idle") =>
              LET p == loc'[i].proj
                  c == file[p]
              IN /\ (c.kind = "state" /\ PidExists(c.pid)) =>
                       (loc'[i].state = c /\ file'[p] = c /\ pc'[i] = "done")
                 /\ (c.kind = "state" /\ ~PidExists(c.pid)) =>
                       (loc'[i].state = Null /\ pc'[i] = "unlink")
         /\ (pc[i] = "unlink" /\ pc'[i] # "unlink") =>
              LET p == loc[i].proj
              IN /\ loc'[i].state = Null
                 /\ file'[p] = Absent
                 /\ getDaemonState(p)'.result = Null
                 /\ ~getDaemonState(p)'.unlink
      ]_vars

\* A lookup found a stale record and has deleted its file.
C5_Witness ==
    \E i \in Invocations :
        /\ loc[i].lookup = "stale"
        /\ pc[i] = "findRA"
        /\ file[loc[i].proj] = Absent

\* C6: ensureDaemon on a project whose record names a live process returns
\* the record's port and spawns no worker, binds no listener and writes no
\* state file; a worker is spawned only by an invocation whose lookup
\* returned absent.
C6_ReuseLiveDaemon ==
    [][\A i \in Invocations :
         /\ (/\ pc[i] = "idle" /\ pc'[i] # "idle"
             /\ file[loc'[i].proj].kind = "state"
             /\ PidExists(file[loc'[i].proj].pid)) =>
              /\ pc'[i] = "done"
              /\ loc'[i].ret = file[loc'[i].proj].port
              /\ workers' = workers
              /\ listeners' = listeners
              /\ file' = file
         /\ (/\ Len(workers') > Len(workers)
             /\ workers'[Len(workers')].host = i) =>
              (loc[i].state = Null /\ loc[i].lookup \in {"absent", "stale"})
      ]_vars

\* An invocation got the port of a daemon another invocation had spawned.
C6_Witness ==
    \E i \in Invocations :
        /\ pc[i] = "done"
        /\ loc[i].lookup = "live"
        /\ loc[i].pid = 0
        /\ loc[i].ret = loc[i].state.port

(***************************************************************************)
(* Further claims about the daemon (Spec).                                 *)
(***************************************************************************)
\* C17: the probe of a project starts at basePort + (hash mod 100) and
\* goes upward over at most 100 candidates: the port it returns is the
\* first candidate no listener holds at that time, it fails exactly when
\* all 100 candidates are held, and it leaves no port bound.
C17_PortAllocation ==
    [][\A i \in Invocations :
         (pc[i] = "findPort" /\ pc'[i] # "findPort") =>
            LET start == BASE_PORT + (hashPath(loc[i].proj) % 100)
                candidates == start .. (start + 99)
            IN /\ pc'[i] \in {"spawn", "failed"}
               /\ pc'[i] = "spawn" =>
                    /\ loc'[i].port \in candidates
                    /\ loc'[i].port \notin BoundPorts
                    /\ \A q \in start .. (loc'[i].port - 1) : q \in BoundPorts
               /\ pc'[i] = "failed" =>
                    /\ candidates \subseteq BoundPorts
                    /\ loc'[i].err = "No free port found"
               /\ listeners' = listeners
               /\ envPorts' = envPorts
      ]_vars

\* The start port of an invocation's project was held by a listener and
\* the probe has returned the next port.
C17_Witness ==
    \E i \in Invocations :
        /\ pc[i] = "spawn"
        /\ loc[i].port = StartPort(loc[i].proj) + 1
        /\ \E l \in listeners : l.port = StartPort(loc[i].proj)

\* C18: no relay takes a chunk from the worker's standard output once its
\* connection has closed.
C18_RelayEndsWithConnection ==
    \A i \in Invocations : ~conns[i].lost

\* C20: a state record is removed only when the process it names is dead.
C20_OnlyDeadRecordsDeleted ==
    [][\A p \in Projects :
         (file[p].kind = "state" /\ file'[p] = Absent) =>
            ~PidExists(file[p].pid)
      ]_vars

(***************************************************************************)
(* Claims about the framer (FramerSpec).                                   *)
(***************************************************************************)
AllAscii(msgs) == \A k \in 1..Len(msgs) : byteLength(stringify(msgs[k])) = Len(stringify(msgs[k]))

\* C7: whatever the chunks one encoded message arrives in, once all its
\* bytes have gone through the data handler exactly that message has been
\* decoded and the buffer is empty; also for a payload with more bytes than
\* characters.
C7_RoundTrip ==
    (/\ input.corrupt = <<>> /\ Len(input.msgs) = 1 /\ input.tail = <<>>
     /\ wire = <<>>)
    => (received = input.msgs /\ buffer = <<>>)

\* C8: from two complete framed messages followed by an incomplete header
\* or payload, both messages are returned in order and the incomplete tail
\* stays in the buffer verbatim.
C8_TwoMessagesAndTail ==
    (/\ input.corrupt = <<>> /\ Len(input.msgs) = 2 /\ input.tail # <<>>
     /\ wire = <<>>)
    => (received = input.msgs /\ buffer = input.tail)

\* C9: a well-formed message that follows corrupt input (a header block
\* without a length, a header with a wrong length, an unparseable payload)
\* has been decoded once all its bytes have arrived.
C9_RecoversAfterCorruptInput ==
    (/\ input.corrupt # <<>> /\ AllAscii(input.msgs) /\ Len(input.msgs) = 1
     /\ wire = <<>>)
    => (/\ received # <<>>
        /\ received[Len(received)] = input.msgs[1])

(***************************************************************************)
(* Claims about the RPC client (ClientSpec).                               *)
(***************************************************************************)
\* The id a decoded message carries (0 when it carries none).
IdOf(msg) ==
    IF msg.t = "obj" /\ HasKey(msg, K_id) /\ Get(msg, K_id).t = "num"
    THEN Get(msg, K_id).n ELSE 0

\* What a response settles its request with.
Outcome(msg) ==
    IF HasKey(msg, K_error)
    THEN [state |-> "rejected", value |-> Get(Get(msg, K_error), K_message)]
    ELSE [state |-> "resolved", value |-> Get(msg, K_result)]

\* C10: in every run of the data handler, each decoded response settles
\* exactly the pending request that has its id, with its result or error,
\* and only the requests answered leave the pending set; the order of the
\* responses and of the requests does not matter.
C10_ResponseCorrelation ==
    [][LET new == SubSeq(received', Len(received) + 1, Len(received'))
           ids == {IdOf(new[x]) : x \in 1..Len(new)}
           First(id) ==
               new[CHOOSE x \in 1..Len(new) :
                     /\ IdOf(new[x]) = id
                     /\ \A y \in 1..(x - 1) : IdOf(new[y]) # id]
       IN Len(wire') < Len(wire) =>
            /\ pending' = pending \ ids
            /\ \A id \in 1..requestId :
                 promises'[id] = IF id \in pending /\ id \in ids
                                 THEN Outcome(First(id))
                                 ELSE promises[id]
      ]_vars

\* The second request, issued while the first (initialize) was still
\* unanswered, has been resolved with its own result, and the first one is
\* still pending.
C10_Witness ==
    /\ requestId = 2
    /\ Get(outbox[1], K_method) = JStr(<<"i", "n", "i", "t", "i", "a", "l", "i", "z", "e">>)
    /\ promises[2] = [state |-> "resolved", value |-> ResultOf(2)]
    /\ promises[1].state = "pending"
    /\ 1 \in pending

\* C11: when the timer of a request that is still pending fires, that
\* request is rejected with the timeout failure and leaves the pending set;
\* every other request keeps its promise and its place in the pending set,
\* the DiagnosticSet is unchanged and nothing happens to the socket (nothing
\* is written, the unread bytes and the buffer stay).
C11_TimeoutRejectsOnlyItsRequest ==
    [][\A id \in 1..MaxRequests :
         (id \in timers /\ id \notin timers') =>
            /\ id \in pending =>
                 /\ promises'[id] = [state |-> "rejected", value |-> RequestTimeout]
                 /\ id \notin pending'
            /\ pending' \ {id} = pending \ {id}
            /\ \A other \in (1..requestId) \ {id} :
                 promises'[other] = promises[other]
            /\ diagnostics' = diagnostics
            /\ <<wire, buffer, outbox, threw>>' = <<wire, buffer, outbox, threw>>
      ]_vars

\* The first of two requests has timed out while the second is still
\* pending and a diagnostics entry is recorded.
C11_Witness ==
    /\ requestId = 2
    /\ promises[1] = [state |-> "rejected", value |-> RequestTimeout]
    /\ 1 \notin pending
    /\ promises[2].state = "pending"
    /\ 2 \in pending
    /\ diagnostics # <<>>

\* C19: a settled promise never changes again and a request that left
\* the pending set never returns to it; a promise is settled only by the
\* run of the data handler that decodes a message with its id or by its own
\* timer; a run of the data handler that decodes only responses to requests
\* no longer pending changes neither the pending set, the promises nor the
\* DiagnosticSet; and a timer that fires for a request no longer pending
\* changes nothing but itself.
C19_SettledAtMostOnce ==
    [][LET new == SubSeq(received', Len(received) + 1, Len(received'))
           ids == {IdOf(new[x]) : x \in 1..Len(new)}
       IN /\ \A id \in 1..requestId :
               /\ (id \in pending) = (promises[id].state = "pending")
               /\ promises[id].state # "pending" =>
                    (promises'[id] = promises[id] /\ id \notin pending')
               /\ (promises[id].state = "pending" /\ promises'[id].state # "pending")
                    => \/ (Len(wire') < Len(wire) /\ id \in ids)
                       \/ (/\ id \in timers /\ id \notin timers'
                           /\ promises'[id].value = RequestTimeout)
          /\ (/\ Len(wire') < Len(wire)
              /\ \A x \in 1..Len(new) :
                   IdOf(new[x]) # 0 /\ IdOf(new[x]) \notin pending)
             => <<pending, promises, diagnostics>>' = <<pending, promises, diagnostics>>
          /\ \A id \in timers \ pending :
               id \notin timers' =>
                  <<pending, promises, diagnostics>>' = <<pending, promises, diagnostics>>
      ]_vars

\* The response to the first request was decoded after the request had
\* timed out: the promise is still the timeout rejection.
C19_Witness ==
    /\ requestId >= 1
    /\ promises[1] = [state |-> "rejected", value |-> RequestTimeout]
    /\ received = <<ResultResponse(1)>>
    /\ 1 \notin timers

(***************************************************************************)
(* Claims about queryDiagnostics and the diagnostics (QuerySpec).          *)
(***************************************************************************)
\* msg is a diagnostics push for uri.
IsPushFor(msg, uri) ==
    /\ msg.t = "obj"
    /\ Get(msg, K_method) = PublishDiagnostics
    /\ GetProp(Get(msg, K_params), K_uri) = uri

\* The sequences pushed for uri by the messages decoded after the first
\* from messages.
PushedFor(uri, from) ==
    {Get(Get(received[k], K_params), K_diagnostics) :
        k \in {x \in (from + 1)..Len(received) : IsPushFor(received[x], uri)}}

\* C12: waitForDiagnostics returns; if an entry for the uri was recorded at
\* a time before the timeout had elapsed (during a sleep that was due
\* before the timeout) it has returned a sequence pushed for the uri, and
\* if no entry was recorded it has returned the empty sequence.
C12_WaitReturnsRecordedPush ==
    wait.state = "returned" =>
        /\ (/\ wait.recordedAt # -1
            /\ wait.recordedAt + PollInterval <= wait.timeoutMs)
           => wait.result \in PushedFor(wait.uri, 0)
        /\ wait.recordedAt = -1 => wait.result = JArr(<<>>)

\* The number of initialize requests written so far.
InitializeCount ==
    Cardinality({k \in 1..Len(outbox) :
                   Get(outbox[k], K_method) = JStr(M_initialize)})

\* The place in outbox of the last initialize request (0 if there is none).
LastInitialize ==
    LET at == {k \in 1..Len(outbox) :
                 Get(outbox[k], K_method) = JStr(M_initialize)}
    IN IF at = {} THEN 0 ELSE CHOOSE k \in at : \A x \in at : x <= k

\* The client in use has written the initialized notification.
Acknowledged(box) ==
    \E k \in 1..Len(box) :
        /\ Get(box[k], K_method) = JStr(M_initialized)
        /\ \A x \in (k + 1)..Len(box) :
             Get(box[x], K_method) # JStr(M_initialize)

\* C13 as stated: whatever the sequence of calls, one connection is opened
\* and one initialize request is sent.
C13_OneConnectionOneInitialize ==
    connects <= 1 /\ InitializeCount <= 1

\* C13: once a call has stored its client in the cache, every later call
\* uses that client: no further connection is opened and no further
\* initialize request is sent; a call that finds the cache empty opens at
\* most one connection and sends at most one initialize request; and a
\* client is in the cache only after its connect and its initialize have
\* completed.
C13_CachedClientReused ==
    [][/\ cache = "client" =>
            /\ cache' = "client"
            /\ connects' = connects
            /\ InitializeCount' = InitializeCount
       /\ connects' <= call'.n
       /\ InitializeCount' = connects'
       /\ cache' = "client" =>
            /\ connects' >= 1
            /\ Len(promises') >= 1
            /\ promises'[1].state = "resolved"
            /\ Acknowledged(outbox')
      ]_vars

\* The second call is waiting for diagnostics on the client the first call
\* connected and initialised.
C13_Witness ==
    /\ call.n = 2
    /\ call.pc = "wait"
    /\ cache = "client"
    /\ connects = 1
    /\ InitializeCount = 1

\* C14: the diagnostics a call returns were pushed for the document after
\* the call announced its content, or are empty with the timeout elapsed.
C14_ReturnsPushAfterOpen ==
    call.pc = "returned" =>
        \/ call.result \in PushedFor(DocumentUri, call.mark)
        \/ (call.result = JArr(<<>>) /\ wait.elapsed >= QueryWaitMs)

\* C15: after a run of the data handler (the step that takes bytes off the
\* wire within a call) the entry of every uri is the
\* sequence of the last push decoded for it, as pushed, or what it was if
\* none was decoded; a run that decodes pushes only leaves the pending set
\* and the promises as they were.
C15_PushReplacesEntry ==
    [][LET new == SubSeq(received', Len(received) + 1, Len(received'))
           PushesFor(uri) == {x \in 1..Len(new) : IsPushFor(new[x], uri)}
           Last(uri) == CHOOSE x \in PushesFor(uri) :
                            \A y \in PushesFor(uri) : y <= x
       IN (Len(wire') < Len(wire) /\ call' = call) =>
            /\ \A uri \in {DocumentUri, OtherUri} :
                 DiagnosticsGet(diagnostics', uri) =
                    IF PushesFor(uri) = {}
                    THEN DiagnosticsGet(diagnostics, uri)
                    ELSE Get(Get(new[Last(uri)], K_params), K_diagnostics)
            /\ (\A x \in 1..Len(new) : Get(new[x], K_method) = PublishDiagnostics)
               => (pending' = pending /\ promises' = promises)
      ]_vars

\* Two pushes for the document have been decoded while the initialize
\* request was pending; the entry is the second one's sequence.
C15_Witness ==
    /\ received = <<DiagnosticsPushFor(DocumentUri, DiagA),
                    DiagnosticsPushFor(DocumentUri, DiagB)>>
    /\ DiagnosticsGet(diagnostics, DocumentUri) = DiagB
    /\ pending = {1}

\* C16: the initialized notification is written only when a response to
\* the initialize request has been decoded and has resolved it; a didOpen
\* notification is written only by a client that has written initialized;
\* and when the initialize request is rejected (error response or timeout)
\* the call throws, writes nothing and leaves the cache empty.
C16_HandshakeOrdered ==
    [][/\ Len(outbox') > Len(outbox) =>
            LET method == Get(outbox'[Len(outbox')], K_method)
            IN /\ method = JStr(M_initialized) =>
                    /\ \E k \in 1..Len(received) :
                         /\ Get(received[k], K_id) = JNum(requestId)
                         /\ ~HasKey(received[k], K_error)
                    /\ promises[requestId].state = "resolved"
                    /\ LastInitialize > 0
               /\ method = JStr(M_didOpen) => Acknowledged(outbox)
       /\ (call.pc = "init" /\ promises[requestId].state = "rejected") =>
            /\ cache = "empty"
            /\ call'.pc \in {"init", "threw"}
            /\ outbox' = outbox
            /\ cache' = "empty"
      ]_vars

\* The first call threw because its initialize request was rejected; the
\* second call, on a client of its own, has completed the handshake and
\* announced the document.
C16_Witness ==
    /\ call.n = 2
    /\ call.pc = "wait"
    /\ connects = 2
    /\ Len(outbox) = 4
    /\ Get(outbox[1], K_method) = JStr(M_initialize)
    /\ Get(outbox[2], K_method) = JStr(M_initialize)
    /\ Get(outbox[3], K_method) = JStr(M_initialized)
    /\ Get(outbox[4], K_method) = JStr(M_didOpen)

=============================================================================
